---------------------------- MODULE Spec2Model ----------------------------
(***************************************************************************)
(* A model of the ray tracer's camera/viewport arithmetic (camera.rs),     *)
(* its Vec3 operators (util.rs) and the application's resize/render        *)
(* handlers (main.rs).                                                     *)
(*                                                                         *)
(* Numbers are IEEE-754 binary32 values, computed bit-exactly with         *)
(* round-to-nearest-even: a finite value is (-1)^s * m * 2^e.              *)
(***************************************************************************)
EXTENDS Integers, Sequences, FiniteSets, TLC

\* The arithmetic operations that gave the NaN they returned a clear sign bit
\* (0x7fc00000) in the step that led to the current state; an operation not
\* among them gives a NaN it returns a set sign bit (0xffc00000).  An
\* operation is named by the function it is in, the expression it computes
\* there and the component it works on (<<function, expression, i>>, i = 0
\* for a scalar).  Rust leaves the sign of a NaN result unspecified, whether
\* the operands were NaN or not: one build gives 0x7fc00000 for an operation
\* folded at compile time and, for the same operation done at run time,
\* 0xffc00000 from operands that are not NaN and the sign of the operand from
\* one that is.  So every operation has a sign of its own.
VARIABLE nan_sign

(***************************************************************************)
(* f32                                                                     *)
(***************************************************************************)

\* Width of the f32 significand (with the hidden bit) and its least exponent.
MantBits == 24
MinExp == -149
MaxExp == 104

Pow2(n) == 2 ^ n

\* The number of bits of a natural number below 2^31.
BitLen(n) == Cardinality({i \in 0..30 : Pow2(i) <= n})

FZero(s) == [k |-> "fin", s |-> s, m |-> 0, e |-> 0]
FInf(s) == [k |-> "inf", s |-> s, m |-> 0, e |-> 0]
\* The NaN the operation at a place returns, from operands that are NaN or
\* from others (0.0 / 0.0, inf - inf, 0.0 * inf): quiet, with no payload, of
\* the sign that operation gives.
FNaN(at) == [k |-> "nan", s |-> IF at \in nan_sign THEN 0 ELSE 1, m |-> 0, e |-> 0]
FIsZero(a) == a.k = "fin" /\ a.m = 0

Xor(s, t) == IF s = t THEN 0 ELSE 1

\* M * 2^E shifted right by sh > 0 bits and rounded to nearest, ties to even;
\* sticky says that bits below M were already dropped.
FRoundShift(s, M, E, sticky, sh) ==
    LET q == M \div Pow2(sh)
        r == M % Pow2(sh)
        half == Pow2(sh - 1)
        up == r > half \/ (r = half /\ (sticky \/ q % 2 = 1))
        m1 == IF up THEN q + 1 ELSE q
        carry == m1 = Pow2(MantBits)
        m2 == IF carry THEN Pow2(MantBits - 1) ELSE m1
        e2 == IF carry THEN E + sh + 1 ELSE E + sh
    IN  IF m2 = 0 THEN FZero(s)
        ELSE IF e2 > MaxExp THEN FInf(s)
        ELSE [k |-> "fin", s |-> s, m |-> m2, e |-> e2]

\* The f32 nearest to (-1)^s * (M + f) * 2^E, where 0 <= f < 1 and f # 0 iff
\* sticky.  A sticky M has at least 26 bits.
F32RoundVal(s, M, E, sticky) ==
    IF M = 0 THEN FZero(s)
    ELSE CHOOSE r \in
           { IF sh <= 0
             THEN IF E + sh > MaxExp THEN FInf(s)
                  ELSE [k |-> "fin", s |-> s, m |-> M * Pow2(-sh), e |-> E + sh]
             ELSE IF sh > BitLen(M) THEN FZero(s)
             ELSE FRoundShift(s, M, E, sticky, sh)
             : sh \in { IF BitLen(M) - MantBits > MinExp - E
                        THEN BitLen(M) - MantBits ELSE MinExp - E } } : TRUE

\* Every operator of this section binds its operands to their values once
\* (x \in {expr}), so that an operand is not computed again each time the
\* body names it.
F32Round(s, M, E, sticky) ==
    CHOOSE r \in {F32RoundVal(s, m, e, st) : m \in {M}, e \in {E}, st \in {sticky}} : TRUE

\* A non-zero finite value with its significand shifted up to 24 bits.
FNorm(x) ==
    CHOOSE r \in {[m |-> a.m * Pow2(sh), e |-> a.e - sh]
                   : a \in {x}, sh \in {MantBits - BitLen(x.m)}} : TRUE

\* `n as f32` for an unsigned integer n.
F32OfNat(n) == F32Round(0, n, 0, FALSE)

\* A small signed integer as an f32 literal (2.0, 0.0, -1.0, ...).
F32OfInt(i) == IF i < 0 THEN F32Round(1, -i, 0, FALSE) ELSE F32Round(0, i, 0, FALSE)

\* -x flips the sign bit, of a NaN too.
F32Neg(x) ==
    CHOOSE r \in {[a EXCEPT !.s = 1 - a.s] : a \in {x}} : TRUE

\* |x| + |y| or |x| - |y| for normalised x, y with x.e >= y.e, the result
\* taking the sign of the larger; three guard bits and a sticky bit keep the
\* rounding exact.
FAddMag(x, y, sx, sy) ==
    LET d == x.e - y.e
        Mx == x.m * 8
        E == x.e - 3
        y8 == y.m * 8
        My == IF d >= MantBits + 3 THEN 0 ELSE y8 \div Pow2(d)
        st == IF d >= MantBits + 3 THEN TRUE ELSE y8 % Pow2(d) # 0
    IN  IF sx = sy THEN F32Round(sx, Mx + My, E, st)
        ELSE IF Mx = My /\ ~st THEN FZero(0)
        ELSE IF Mx > My
             THEN IF st THEN F32Round(sx, Mx - My - 1, E, TRUE)
                  ELSE F32Round(sx, Mx - My, E, FALSE)
             ELSE F32Round(sy, My - Mx, E, FALSE)

F32AddVal(at, a, b) ==
    IF a.k = "nan" \/ b.k = "nan" THEN FNaN(at)
    ELSE IF a.k = "inf"
         THEN IF b.k = "inf" /\ a.s # b.s THEN FNaN(at) ELSE a
    ELSE IF b.k = "inf" THEN b
    ELSE IF a.m = 0
         THEN IF b.m = 0 THEN FZero(IF a.s = 1 /\ b.s = 1 THEN 1 ELSE 0) ELSE b
    ELSE IF b.m = 0 THEN a
    ELSE CHOOSE r \in
           { IF x.e >= y.e THEN FAddMag(x, y, a.s, b.s) ELSE FAddMag(y, x, b.s, a.s)
             : x \in {FNorm(a)}, y \in {FNorm(b)} } : TRUE

F32Add(at, x, y) == CHOOSE r \in {F32AddVal(at, a, b) : a \in {x}, b \in {y}} : TRUE

\* a - b is a + (-b) in IEEE-754 arithmetic.
F32Sub(at, x, y) ==
    CHOOSE r \in {F32AddVal(at, a, F32Neg(b)) : a \in {x}, b \in {y}} : TRUE

\* The 48-bit product of two 24-bit significands, as <<high 24, low 24>>,
\* from their 12-bit halves.
FMulWide(ma, mb) ==
    CHOOSE r \in
      { << (ma \div 4096) * (mb \div 4096) + mid \div 4096
             + ((mid % 4096) * 4096 + (ma % 4096) * (mb % 4096)) \div Pow2(24),
           ((mid % 4096) * 4096 + (ma % 4096) * (mb % 4096)) % Pow2(24) >>
        : mid \in {(ma \div 4096) * (mb % 4096) + (ma % 4096) * (mb \div 4096)} } : TRUE

F32MulVal(at, a, b) ==
    IF a.k = "nan" \/ b.k = "nan" THEN FNaN(at)
    ELSE IF a.k = "inf" \/ b.k = "inf"
         THEN IF FIsZero(a) \/ FIsZero(b) THEN FNaN(at) ELSE FInf(Xor(a.s, b.s))
    ELSE IF a.m = 0 \/ b.m = 0 THEN FZero(Xor(a.s, b.s))
    ELSE CHOOSE r \in
           { CHOOSE r2 \in
               { F32Round(Xor(a.s, b.s), p[1] * 4 + p[2] \div Pow2(22),
                          x.e + y.e + 22, p[2] % Pow2(22) # 0)
                 : p \in {FMulWide(x.m, y.m)} } : TRUE
             : x \in {FNorm(a)}, y \in {FNorm(b)} } : TRUE

F32Mul(at, x, y) == CHOOSE r \in {F32MulVal(at, a, b) : a \in {x}, b \in {y}} : TRUE

\* One round of long division: qr = <<quotient so far, remainder>>, the
\* quotient extended by n more bits of remainder / d.
FDivStep(qr, d, n) ==
    << qr[1] * Pow2(n) + (qr[2] * Pow2(n)) \div d, (qr[2] * Pow2(n)) % d >>

\* The first 27 bits of n / d for 24-bit significands n, d, and the remainder
\* left (every intermediate value stays below 2^31).
FDivBits(n, d) ==
    CHOOSE r \in
      { CHOOSE r2 \in
          { CHOOSE r3 \in
              { CHOOSE r4 \in {FDivStep(q3, d, 5) : q3 \in {FDivStep(q2, d, 7)}} : TRUE
                : q2 \in {FDivStep(q1, d, 7)} } : TRUE
            : q1 \in {FDivStep(q0, d, 7)} } : TRUE
        : q0 \in {<<n \div d, n % d>>} } : TRUE

F32DivVal(at, a, b) ==
    IF a.k = "nan" \/ b.k = "nan" THEN FNaN(at)
    ELSE IF a.k = "inf"
         THEN IF b.k = "inf" THEN FNaN(at) ELSE FInf(Xor(a.s, b.s))
    ELSE IF b.k = "inf" THEN FZero(Xor(a.s, b.s))
    ELSE IF b.m = 0
         THEN IF a.m = 0 THEN FNaN(at) ELSE FInf(Xor(a.s, b.s))
    ELSE IF a.m = 0 THEN FZero(Xor(a.s, b.s))
    ELSE CHOOSE r \in
           { CHOOSE r2 \in
               { F32Round(Xor(a.s, b.s), qr[1], x.e - y.e - (MantBits + 2), qr[2] # 0)
                 : qr \in {FDivBits(x.m, y.m)} } : TRUE
             : x \in {FNorm(a)}, y \in {FNorm(b)} } : TRUE

F32Div(at, x, y) == CHOOSE r \in {F32DivVal(at, a, b) : a \in {x}, b \in {y}} : TRUE

\* Rust's == on f32: NaN equals nothing, and -0.0 == 0.0.
F32Eq(a, b) ==
    /\ a.k # "nan"
    /\ b.k # "nan"
    /\ \/ a = b
       \/ FIsZero(a) /\ FIsZero(b)


\* The four bytes of an f32 in memory (little-endian), as bytemuck::cast_slice
\* exposes them.  A NaN is written with its own sign bit, the quiet bit and
\* no payload: 0x7fc00000 or 0xffc00000.
F32Bytes(a) ==
    LET ex == IF a.k # "fin" THEN 255
              ELSE IF a.m < Pow2(MantBits - 1) THEN 0
              ELSE a.e + 150
        fr == IF a.k = "nan" THEN Pow2(MantBits - 2)
              ELSE IF a.k = "inf" THEN 0
              ELSE IF a.m < Pow2(MantBits - 1) THEN a.m
              ELSE a.m - Pow2(MantBits - 1)
    IN  << fr % 256,
           (fr \div 256) % 256,
           (ex % 2) * 128 + fr \div 65536,
           a.s * 128 + ex \div 2 >>

(***************************************************************************)
(* util.rs: Vec3                                                           *)
(***************************************************************************)

Vec3(x, y, z) == <<x, y, z>>

Vec3_i == Vec3(F32OfInt(1), F32OfInt(0), F32OfInt(0))
Vec3_j == Vec3(F32OfInt(0), F32OfInt(1), F32OfInt(0))
Vec3_k == Vec3(F32OfInt(0), F32OfInt(0), F32OfInt(1))
Vec3_origin == Vec3(F32OfInt(0), F32OfInt(0), F32OfInt(0))

as_array(self) == CHOOSE r \in {<<v[1], v[2], v[3]>> : v \in {self}} : TRUE

\* bytemuck::cast_slice(&[f32]) : the floats' bytes, one after the other.
cast_slice(fs) ==
    CHOOSE r \in
      { [i \in 1..(4 * Len(a)) |-> F32Bytes(a[((i - 1) \div 4) + 1])[((i - 1) % 4) + 1]]
        : a \in {fs} } : TRUE

\* The operators of Vec3, each for one expression at = <<function, expression>>
\* of the source: its component i is the scalar operation Append(at, i).
add_at(at, self, rhs) ==
    CHOOSE r \in {Vec3(F32Add(Append(at, 1), a[1], b[1]), F32Add(Append(at, 2), a[2], b[2]),
                       F32Add(Append(at, 3), a[3], b[3]))
                    : a \in {self}, b \in {rhs}} : TRUE

sub_at(at, self, rhs) ==
    CHOOSE r \in {Vec3(F32Sub(Append(at, 1), a[1], b[1]), F32Sub(Append(at, 2), a[2], b[2]),
                       F32Sub(Append(at, 3), a[3], b[3]))
                    : a \in {self}, b \in {rhs}} : TRUE

mul_at(at, self, rhs) ==
    CHOOSE r \in {Vec3(F32Mul(Append(at, 1), a[1], s), F32Mul(Append(at, 2), a[2], s),
                       F32Mul(Append(at, 3), a[3], s))
                    : a \in {self}, s \in {rhs}} : TRUE

div_at(at, self, rhs) ==
    CHOOSE r \in {Vec3(F32Div(Append(at, 1), a[1], s), F32Div(Append(at, 2), a[2], s),
                       F32Div(Append(at, 3), a[3], s))
                    : a \in {self}, s \in {rhs}} : TRUE

\* An operator applied on its own, outside Camera and Viewport.
add(self, rhs) == add_at(<<"Vec3", "add">>, self, rhs)

\* A faulty sub: the second component subtracts rhs.0 instead of rhs.1.
sub_crossed(self, rhs) ==
    CHOOSE r \in {Vec3(F32Sub(<<"Vec3", "sub", 1>>, a[1], b[1]), F32Sub(<<"Vec3", "sub", 2>>, a[2], b[1]),
                       F32Sub(<<"Vec3", "sub", 3>>, a[3], b[3]))
                    : a \in {self}, b \in {rhs}} : TRUE

sub(self, rhs) == sub_at(<<"Vec3", "sub">>, self, rhs)

neg(self) ==
    CHOOSE r \in {Vec3(F32Neg(a[1]), F32Neg(a[2]), F32Neg(a[3])) : a \in {self}} : TRUE

mul(self, rhs) == mul_at(<<"Vec3", "mul">>, self, rhs)

div(self, rhs) == div_at(<<"Vec3", "div">>, self, rhs)

(***************************************************************************)
(* camera.rs: Viewport                                                     *)
(***************************************************************************)

\* PhysicalSize<u32>
PhysicalSize(w, h) == [width |-> w, height |-> h]

\* The operations of Viewport::new (camera.rs:184, 189, 190) and those of
\* Viewport::resize (camera.rs:209, 212, 213): the ratio of the pixel sizes,
\* the width, du and dv.
Viewport_new(image_size) ==
    LET height == F32OfInt(2)
        width == F32Mul(<<"Viewport::new", "width", 0>>, height,
                        F32Div(<<"Viewport::new", "ratio", 0>>,
                               F32OfNat(image_size.width), F32OfNat(image_size.height)))
        u == Vec3(width, F32OfInt(0), F32OfInt(0))
        v == Vec3(F32OfInt(0), F32Neg(height), F32OfInt(0))
    IN  [ height |-> height,
          width |-> width,
          focal_len |-> F32OfInt(1),
          u |-> u,
          v |-> v,
          du |-> div_at(<<"Viewport::new", "du">>, u, F32OfNat(image_size.width)),
          dv |-> div_at(<<"Viewport::new", "dv">>, v, F32OfNat(image_size.height)) ]

with_focal_len(self, focal_len) == [self EXCEPT !.focal_len = focal_len]

\* A faulty resize: dv is divided by the pixel width instead of the height.
Viewport_resize_dv_by_width(self, size) ==
    LET width == F32Mul(<<"Viewport::resize", "width", 0>>, self.height,
                        F32Div(<<"Viewport::resize", "ratio", 0>>,
                               F32OfNat(size.width), F32OfNat(size.height)))
        u == Vec3(width, F32OfInt(0), F32OfInt(0))
    IN  [self EXCEPT !.width = width,
                     !.u = u,
                     !.du = div_at(<<"Viewport::resize", "du">>, u, F32OfNat(size.width)),
                     !.dv = div_at(<<"Viewport::resize", "dv">>, self.v, F32OfNat(size.width))]

Viewport_resize(self, size) ==
    LET width == F32Mul(<<"Viewport::resize", "width", 0>>, self.height,
                        F32Div(<<"Viewport::resize", "ratio", 0>>,
                               F32OfNat(size.width), F32OfNat(size.height)))
        u == Vec3(width, F32OfInt(0), F32OfInt(0))
    IN  [self EXCEPT !.width = width,
                     !.u = u,
                     !.du = div_at(<<"Viewport::resize", "du">>, u, F32OfNat(size.width)),
                     !.dv = div_at(<<"Viewport::resize", "dv">>, self.v, F32OfNat(size.height))]

(***************************************************************************)
(* State                                                                   *)
(***************************************************************************)

VARIABLES
    camera,      \* the Camera: origin, viewport, pixel_00_center, buffer handles
    buffers,     \* the device's buffers: handle -> bytes held on the GPU
    queue,       \* Queue::write_buffer calls staged until the next submit
    bind_group,  \* the last bind group made by Camera::bind_group, if any
    image_size,  \* the size last given to Camera::new / resize_viewport
    vec,         \* the Vec3 harness: operands a, b, s, the last operator, its result
    app,         \* AppHolder.app: <<>> for None, <<the App>> for Some
    gpu,         \* the device's live textures (and which of them can only be
                 \* sampled) and the surface's configuration
    loop,        \* the event loop: its state and whether a redraw is requested
    last,        \* the window event handled last, and the render result in it
    log,         \* the wgpu/winit calls the last handler made, in order
    frame,       \* what the last handler submitted to the GPU and presented
    util,        \* the last result of util::texture_bind_groups
    view         \* the Viewport harness: the viewport, the size of the last
                 \* resize and the focal length before the resizes

\* What nan_sign can be after a step in which only the operations of made
\* returned a NaN: either sign for each of them.
NanSigns(made) == SUBSET made

\* No operation of the step returned a NaN.
NoNaN == {}

\* The operations of fn (Viewport::new or Viewport::resize) that return a NaN
\* for a size, the height of every Viewport being 2 and its v (0, -2, 0):
\* for a size 0 x 0 the ratio 0 / 0 and the width made from it; for a zero
\* pixel width the three components of du (0.0 / 0, or NaN / 0); for a zero
\* pixel height the first and third components of dv (0.0 / 0).
ViewportNaNs(fn, size) ==
    (IF size.width = 0 /\ size.height = 0
     THEN {<<fn, "ratio", 0>>, <<fn, "width", 0>>} ELSE {})
    \cup (IF size.width = 0 THEN {<<fn, "du", i>> : i \in 1..3} ELSE {})
    \cup (IF size.height = 0 THEN {<<fn, "dv", 1>>, <<fn, "dv", 3>>} ELSE {})

camVars == <<camera, buffers, queue, bind_group, image_size>>
vecVars == <<vec>>
appVars == <<app, gpu, loop, last, log, frame, util>>
\* The Viewport harness is the only one whose inputs reach a NaN.
viewVars == <<view, nan_sign>>
vars == <<camera, buffers, queue, bind_group, image_size, vec,
          app, gpu, loop, last, log, frame, util, view, nan_sign>>

\* Largest pixel width and height the harness passes, and the most writes the
\* queue holds before a submit.
MaxWidth == 5
MaxHeight == 3
MaxQueue == 6

\* Largest window width and height the application is given, and the most
\* resolution writes staged before a frame is submitted.
MaxAppWidth == 2
MaxAppHeight == 1
MaxStaged == 1

\* Largest focal length the Viewport harness sets.
MaxFocal == 4

\* Largest component and largest scalar the Vec3 harness draws.
MaxVal == 1
MaxScalar == 2

Sizes == {PhysicalSize(w, h) : w \in 1..MaxWidth, h \in 1..MaxHeight}

(***************************************************************************)
(* wgpu device and queue                                                   *)
(***************************************************************************)

\* Device::create_buffer_init: a new buffer holding contents; its handle is
\* its position among the device's buffers.
create_buffer_init(bufs, contents) == Append(bufs, contents)

\* Queue::write_buffer(buffer, offset, data): staged, in call order.
write_buffer(q, buffer, offset, data) ==
    Append(q, [buffer |-> buffer, offset |-> offset, data |-> data])

\* The staged writes of q that cover byte i of buffer b.
WritesTo(q, b, i) ==
    {j \in 1..Len(q) : q[j].buffer = b /\ i > q[j].offset /\ i <= q[j].offset + Len(q[j].data)}

\* The largest member of a non-empty set of numbers.
MaxOf(S) == CHOOSE x \in S : \A y \in S : y <= x

\* Queue::submit applies the staged writes, oldest first, before any command
\* of the submission runs: each byte ends with the last write that covers it.
ApplyWrites(bufs, q) ==
    [b \in 1..Len(bufs) |->
        [i \in 1..Len(bufs[b]) |->
            IF WritesTo(q, b, i) = {} THEN bufs[b][i]
            ELSE q[MaxOf(WritesTo(q, b, i))].data[i - q[MaxOf(WritesTo(q, b, i))].offset]]]

(***************************************************************************)
(* camera.rs: Camera                                                       *)
(***************************************************************************)

\* upper_corner and pixel_00_center, as Camera::new computes them.
pixel_00_center_new(origin, viewport) ==
    LET upper_corner ==
            sub_at(<<"Camera::new", "- v / 2">>,
                   sub_at(<<"Camera::new", "- u / 2">>,
                          sub_at(<<"Camera::new", "- focal_len">>, origin,
                                 Vec3(F32OfInt(0), F32OfInt(0), viewport.focal_len)),
                          div_at(<<"Camera::new", "u / 2">>, viewport.u, F32OfInt(2))),
                   div_at(<<"Camera::new", "v / 2">>, viewport.v, F32OfInt(2)))
    IN  add_at(<<"Camera::new", "upper_corner +">>, upper_corner,
               div_at(<<"Camera::new", "(du + dv) / 2">>,
                      add_at(<<"Camera::new", "du + dv">>, viewport.du, viewport.dv),
                      F32OfInt(2)))

\* Camera::new: the camera and the device's buffers after the four
\* create_buffer_init calls (origin, du, dv, pixel (0,0) center).
Camera_new(img_size, bufs) ==
    CHOOSE r \in
      { CHOOSE r2 \in
          { [ camera |-> [ origin |-> origin,
                           viewport |-> viewport,
                           origin_buffer |-> Len(bufs) + 1,
                           viewport_buffers |-> <<Len(bufs) + 2, Len(bufs) + 3>>,
                           pixel_00_center |-> pixel_00_center,
                           pixel_buffer |-> Len(bufs) + 4 ],
              buffers |->
                create_buffer_init(
                  create_buffer_init(
                    create_buffer_init(
                      create_buffer_init(bufs, cast_slice(as_array(origin))),
                      cast_slice(as_array(viewport.du))),
                    cast_slice(as_array(viewport.dv))),
                  cast_slice(as_array(pixel_00_center))) ]
            : pixel_00_center \in {pixel_00_center_new(origin, viewport)} } : TRUE
        : origin \in {Vec3_origin}, viewport \in {Viewport_new(img_size)} } : TRUE

\* A faulty update_pixel_buffer: pixel_00_center is recomputed on the CPU but
\* its write to pixel_buffer is never staged.
update_pixel_buffer_unwritten(self, q) ==
    CHOOSE r \in
      { [ camera |-> [self EXCEPT !.pixel_00_center = center], queue |-> q ]
        : center \in {pixel_00_center_new(self.origin, self.viewport)} } : TRUE

\* Camera::update_pixel_buffer: recompute pixel_00_center and stage its write.
update_pixel_buffer(self, q) ==
    CHOOSE r \in
      { [ camera |-> [self EXCEPT !.pixel_00_center = center],
          queue |-> write_buffer(q, self.pixel_buffer, 0, cast_slice(as_array(center))) ]
        : center \in
            { add_at(<<"update_pixel_buffer", "upper_corner +">>,
                     sub_at(<<"update_pixel_buffer", "- v / 2">>,
                            sub_at(<<"update_pixel_buffer", "- u / 2">>,
                                   sub_at(<<"update_pixel_buffer", "- focal_len">>, self.origin,
                                          Vec3(F32OfInt(0), F32OfInt(0),
                                               self.viewport.focal_len)),
                                   div_at(<<"update_pixel_buffer", "u / 2">>,
                                          self.viewport.u, F32OfInt(2))),
                            div_at(<<"update_pixel_buffer", "v / 2">>, self.viewport.v, F32OfInt(2))),
                     div_at(<<"update_pixel_buffer", "(du + dv) / 2">>,
                            add_at(<<"update_pixel_buffer", "du + dv">>,
                                   self.viewport.du, self.viewport.dv),
                            F32OfInt(2))) } } : TRUE

\* A faulty resize_viewport: the viewport is resized and du, dv are written,
\* but update_pixel_buffer is not called.
resize_viewport_stale_pixel(self, q, size) ==
    CHOOSE r \in
      { [ camera |-> self1,
          queue |->
            write_buffer(
              write_buffer(q, self1.viewport_buffers[1], 0,
                           cast_slice(as_array(self1.viewport.du))),
              self1.viewport_buffers[2], 0, cast_slice(as_array(self1.viewport.dv))) ]
        : self1 \in {[self EXCEPT !.viewport = Viewport_resize(@, size)]} } : TRUE

\* Camera::resize_viewport: resize the viewport, stage the du and dv writes,
\* then update_pixel_buffer.
resize_viewport(self, q, size) ==
    CHOOSE r \in
      { update_pixel_buffer(
          self1,
          write_buffer(
            write_buffer(q, self1.viewport_buffers[1], 0,
                         cast_slice(as_array(self1.viewport.du))),
            self1.viewport_buffers[2], 0, cast_slice(as_array(self1.viewport.dv))))
        : self1 \in {[self EXCEPT !.viewport = Viewport_resize(@, size)]} } : TRUE

\* Camera::bind_group_layout: the entries of the layout descriptor.
bind_group_layout ==
    << [binding |-> 0, visibility |-> "COMPUTE", ty |-> "Buffer", buffer_ty |-> "Uniform"],
       [binding |-> 1, visibility |-> "COMPUTE", ty |-> "Buffer", buffer_ty |-> "Uniform"],
       [binding |-> 2, visibility |-> "COMPUTE", ty |-> "Buffer", buffer_ty |-> "Uniform"],
       [binding |-> 3, visibility |-> "COMPUTE", ty |-> "Buffer", buffer_ty |-> "Uniform"] >>

\* A faulty bind_group: the du and dv buffers are bound the wrong way round.
Camera_bind_group_swapped(self) ==
    [ layout |-> bind_group_layout,
      entries |-> << [binding |-> 0, resource |-> self.origin_buffer],
                     [binding |-> 1, resource |-> self.viewport_buffers[2]],
                     [binding |-> 2, resource |-> self.viewport_buffers[1]],
                     [binding |-> 3, resource |-> self.pixel_buffer] >> ]

\* Camera::bind_group: the bind group descriptor, layout and entries.
Camera_bind_group(self) ==
    [ layout |-> bind_group_layout,
      entries |-> << [binding |-> 0, resource |-> self.origin_buffer],
                     [binding |-> 1, resource |-> self.viewport_buffers[1]],
                     [binding |-> 2, resource |-> self.viewport_buffers[2]],
                     [binding |-> 3, resource |-> self.pixel_buffer] >> ]

(***************************************************************************)
(* The camera harness: a Camera made for some size, then any sequence of   *)
(* resize_viewport calls, submits and bind_group calls.                    *)
(***************************************************************************)

\* No bind group made yet.
NoBindGroup == [layout |-> <<>>, entries |-> <<>>]

\* The Vec3 harness at rest: no operands drawn.
VecIdle == vec = <<>>

\* The application at rest: no App, no device resources, the loop not begun.
NoEvent == [kind |-> "none", window_id |-> 0, render |-> "none", handled |-> FALSE]

\* A device with no texture, and no surface configured.
NoGpu == [textures |-> <<>>, sampled_only |-> {}, surface |-> <<>>]

AppIdle ==
    /\ app = <<>>
    /\ gpu = NoGpu
    /\ loop = [state |-> "init", redraw_requested |-> FALSE]
    /\ last = NoEvent
    /\ log = <<>>
    /\ frame = <<>>
    /\ util = <<>>

\* The Viewport harness at rest.  No step of the other harnesses makes a NaN
\* (their sizes and divisors are not zero).
VpIdle ==
    /\ nan_sign = NoNaN
    /\ view = <<>>

CamInit ==
    /\ \E s \in Sizes :
        LET made == Camera_new(s, <<>>)
        IN  /\ camera = made.camera
            /\ buffers = made.buffers
            /\ queue = <<>>
            /\ bind_group = NoBindGroup
            /\ image_size = s
    /\ VecIdle
    /\ AppIdle
    /\ VpIdle

CamResizeViewport(size) ==
    /\ Len(queue) + 3 <= MaxQueue
    /\ LET r == resize_viewport(camera, queue, size)
       IN  /\ camera' = r.camera
           /\ queue' = r.queue
    /\ image_size' = size
    /\ UNCHANGED <<buffers, bind_group, vecVars, appVars, viewVars>>

CamSubmit ==
    /\ queue # <<>>
    /\ buffers' = ApplyWrites(buffers, queue)
    /\ queue' = <<>>
    /\ UNCHANGED <<camera, bind_group, image_size, vecVars, appVars, viewVars>>

CamBindGroup ==
    /\ bind_group' = Camera_bind_group(camera)
    /\ UNCHANGED <<camera, buffers, queue, image_size, vecVars, appVars, viewVars>>

CamNext ==
    \/ \E size \in Sizes : CamResizeViewport(size)
    \/ CamSubmit
    \/ CamBindGroup

SpecCamera == CamInit /\ [][CamNext]_vars

(***************************************************************************)
(* The Vec3 harness: operands drawn from a bounded domain on which f32     *)
(* arithmetic is exact (small integers), then any of the operators.        *)
(***************************************************************************)

Vals == {F32OfInt(i) : i \in (-MaxVal)..MaxVal}
Scalars == {F32OfInt(i) : i \in ((-MaxScalar)..MaxScalar) \ {0}}
VecsA == {Vec3(x, y, z) : x \in Vals, y \in Vals, z \in Vals}
VecsB == {Vec3_origin, Vec3_i, Vec3_j, Vec3_k, neg(Vec3_i), neg(Vec3_j), neg(Vec3_k)}

\* The camera harness at rest: no Camera made.
CamIdle ==
    /\ camera = <<>>
    /\ buffers = <<>>
    /\ queue = <<>>
    /\ bind_group = NoBindGroup
    /\ image_size = PhysicalSize(1, 1)

VecInit ==
    /\ \E a \in VecsA, b \in VecsB, s \in Scalars :
         vec = [a |-> a, b |-> b, s |-> s, op |-> "none", r |-> Vec3_origin]
    /\ CamIdle
    /\ AppIdle
    /\ VpIdle

VecAdd == vec' = [vec EXCEPT !.op = "add", !.r = add(vec.a, vec.b)] /\ UNCHANGED <<camVars, appVars, viewVars>>

VecSub == vec' = [vec EXCEPT !.op = "sub", !.r = sub(vec.a, vec.b)] /\ UNCHANGED <<camVars, appVars, viewVars>>

VecNeg == vec' = [vec EXCEPT !.op = "neg", !.r = neg(vec.a)] /\ UNCHANGED <<camVars, appVars, viewVars>>

VecMul == vec' = [vec EXCEPT !.op = "mul", !.r = mul(vec.a, vec.s)] /\ UNCHANGED <<camVars, appVars, viewVars>>

VecDiv == vec' = [vec EXCEPT !.op = "div", !.r = div(vec.a, vec.s)] /\ UNCHANGED <<camVars, appVars, viewVars>>

\* a + Vec3::origin()
VecAddOrigin ==
    vec' = [vec EXCEPT !.op = "add_origin", !.r = add(vec.a, Vec3_origin)] /\ UNCHANGED <<camVars, appVars, viewVars>>

\* (a * s) / s
VecMulDiv ==
    vec' = [vec EXCEPT !.op = "mul_div", !.r = div(mul(vec.a, vec.s), vec.s)]
    /\ UNCHANGED <<camVars, appVars, viewVars>>

VecNext ==
    \/ VecAdd
    \/ VecSub
    \/ VecNeg
    \/ VecMul
    \/ VecDiv
    \/ VecAddOrigin
    \/ VecMulDiv

SpecVec == VecInit /\ [][VecNext]_vars

(***************************************************************************)
(* The Viewport harness: a Viewport made for some size, then any sequence  *)
(* of with_focal_len and resize calls.  last is the size of the last       *)
(* resize since the focal length was set (<<>> when there was none) and    *)
(* focal0 the focal length before those resizes.                           *)
(***************************************************************************)

FocalLens == {F32OfInt(f) : f \in 1..MaxFocal}

\* The sizes the harness passes: any PhysicalSize<u32>, a zero width or
\* height included.
ViewSizes == {PhysicalSize(w, h) : w \in 0..MaxWidth, h \in 0..MaxHeight}

VpInit ==
    /\ \E s \in ViewSizes :
          /\ nan_sign \in NanSigns(ViewportNaNs("Viewport::new", s))
          /\ view = [v |-> Viewport_new(s), last |-> <<>>, focal0 |-> Viewport_new(s).focal_len]
    /\ CamIdle
    /\ VecIdle
    /\ AppIdle

VpWithFocalLen(focal_len) ==
    /\ view' = [v |-> with_focal_len(view.v, focal_len), last |-> <<>>, focal0 |-> focal_len]
    /\ nan_sign' = NoNaN
    /\ UNCHANGED <<camVars, vecVars, appVars>>

\* The resize is computed with the signs its own operations give (nan_sign').
VpResize(size) ==
    /\ nan_sign' \in NanSigns(ViewportNaNs("Viewport::resize", size))
    /\ \E self \in {view.v} :
          view' = [view EXCEPT !.v = Viewport_resize(self, size)', !.last = <<size>>]
    /\ UNCHANGED <<camVars, vecVars, appVars>>

VpNext ==
    \/ \E focal_len \in FocalLens : VpWithFocalLen(focal_len)
    \/ \E size \in ViewSizes : VpResize(size)

SpecViewport == VpInit /\ [][VpNext]_vars

(***************************************************************************)
(* main.rs: WebGPUResources, App, AppHolder                                *)
(*                                                                         *)
(* A handler works on a bundle st of the holder's App (app), the device's  *)
(* textures and the surface (gpu), the device's buffers and staged writes, *)
(* the event loop (loop), the calls made so far (log), the frame submitted *)
(* (frame), the result of render (result) and whether a wgpu validation    *)
(* error has aborted the process (panicked).                               *)
(***************************************************************************)

\* One call to wgpu or winit, with its integer arguments.
Call(name, args) == [call |-> name, args |-> args]

\* The position of the first call named name in calls, 0 when there is none.
Pos(calls, name) ==
    IF \E i \in 1..Len(calls) : calls[i].call = name
    THEN CHOOSE i \in 1..Len(calls) :
            /\ calls[i].call = name
            /\ \A j \in 1..(i - 1) : calls[j].call # name
    ELSE 0

\* SurfaceError, the errors of Surface::get_current_texture.
SurfaceError == {"Timeout", "Outdated", "Lost", "OutOfMemory"}

\* bytemuck::cast_slice(&[size.width as f32, size.height as f32])
resolution_bytes(size) ==
    cast_slice(<<F32OfNat(size.width), F32OfNat(size.height)>>)

\* Surface::configure(device, config): a zero width or height is a
\* validation error, which wgpu raises as a panic.
Surface_configure(st, config) ==
    IF config.width = 0 \/ config.height = 0
    THEN [st EXCEPT !.log = Append(@, Call("Surface::configure", <<config.width, config.height>>)),
                    !.panicked = TRUE]
    ELSE [st EXCEPT !.log = Append(@, Call("Surface::configure", <<config.width, config.height>>)),
                    !.gpu.surface = <<config>>]

\* The lowest texture handle the device has free.
FreeHandle(textures) ==
    CHOOSE h \in 1..(Cardinality(DOMAIN textures) + 1) :
        /\ h \notin DOMAIN textures
        /\ \A g \in 1..(h - 1) : g \in DOMAIN textures

\* Device::create_texture with Extent3d { width, height, 1 }: a new live
\* texture; a zero width or height is a validation error (a panic).
create_texture(st, size) ==
    CHOOSE r \in
      { IF size.width = 0 \/ size.height = 0
        THEN [s EXCEPT !.log = Append(@, Call("Device::create_texture",
                                              <<size.width, size.height, 1>>)),
                       !.panicked = TRUE]
        ELSE [s EXCEPT !.log = Append(@, Call("Device::create_texture",
                                              <<size.width, size.height, 1>>)),
                       !.gpu.textures = @ @@ (FreeHandle(s.gpu.textures) :> size)]
        : s \in {st} } : TRUE

\* The bind group of the compute pass: binding 0 a view of texture, binding
\* 1 the whole of the uniform buffer.
compute_bind_group(texture, uniform) ==
    [ layout |-> "compute_bind_group_layout",
      entries |-> << [binding |-> 0, resource |-> [kind |-> "TextureView", of |-> texture]],
                     [binding |-> 1, resource |-> [kind |-> "Buffer", of |-> uniform]] >> ]

\* The bind group of the render pass: binding 0 a view of texture, binding 1
\* the sampler.
render_bind_group(texture) ==
    [ layout |-> "render_bind_group_layout",
      entries |-> << [binding |-> 0, resource |-> [kind |-> "TextureView", of |-> texture]],
                     [binding |-> 1, resource |-> [kind |-> "Sampler", of |-> 1]] >> ]

\* The textures some bind group of the App still holds a view of; a texture
\* no view refers to is released.
Held(a) ==
    { a.compute_bind_group.entries[1].resource.of,
      a.render_bind_group.entries[1].resource.of }

Release(st) ==
    CHOOSE r \in
      { [s EXCEPT !.gpu.textures =
            [h \in (DOMAIN s.gpu.textures) \cap Held(s.app[1]) |-> s.gpu.textures[h]]]
        : s \in {st} } : TRUE

\* What setting the App up can fail on: the results resumed and
\* WebGPUResources::new unwrap (no window, no surface, no adapter, no device)
\* and formats[0] of a surface the adapter cannot present to, whose
\* capabilities are empty lists.
SetupFailure ==
    {"create_window", "create_surface", "request_adapter", "request_device", "formats"}

\* The calls of WebGPUResources::new up to the read of the window's size.
SetupCalls ==
    << Call("Instance::new", <<>>),
       Call("Instance::create_surface", <<>>),
       Call("Instance::request_adapter", <<>>),
       Call("Adapter::request_device", <<>>),
       Call("Surface::get_capabilities", <<>>) >>

\* The calls made when the setup fails with outcome: those up to the call
\* whose result the unwrap (or the index) panics on.
SetupCallsUntil(outcome) ==
    SubSeq(SetupCalls, 1,
           IF outcome = "create_surface" THEN Pos(SetupCalls, "Instance::create_surface")
           ELSE IF outcome = "request_adapter" THEN Pos(SetupCalls, "Instance::request_adapter")
           ELSE IF outcome = "request_device" THEN Pos(SetupCalls, "Adapter::request_device")
           ELSE Len(SetupCalls))

\* WebGPUResources::new(window): a new instance, surface, adapter and device
\* (a device with no resources yet); then the window's inner size, which is
\* size when it is read here, goes into the surface configuration and the
\* surface is configured with it.  outcome is "Ok" or the SetupFailure met.
WebGPUResources_new(st, size, outcome) ==
    IF outcome # "Ok"
    THEN [st EXCEPT !.log = @ \o SetupCallsUntil(outcome), !.panicked = TRUE]
    ELSE Surface_configure(
            [st EXCEPT !.log = @ \o SetupCalls \o <<Call("Window::inner_size", <<>>)>>,
                       !.gpu = NoGpu,
                       !.buffers = <<>>,
                       !.queue = <<>>],
            [width |-> size.width, height |-> size.height])

\* WebGPUResources::resize_surface
resize_surface(st, new_size) ==
    Surface_configure(
        [st EXCEPT !.app[1].webgpu_resources.surface_config =
                        [width |-> new_size.width, height |-> new_size.height]],
        [width |-> new_size.width, height |-> new_size.height])

\* App::new(window): the window's inner size is read twice, here (size: it
\* becomes App.size, the resolution uniform and the storage texture) and
\* later in WebGPUResources::new (surface_size: the surface configuration);
\* the window can be resized between the two reads.
App_new(st, window, size, surface_size, outcome) ==
    CHOOSE r \in
      { IF s1.panicked THEN s1
        ELSE CHOOSE r2 \in
          { IF s3.panicked THEN s3
            ELSE [s3 EXCEPT
                    !.log = @ \o
                      << Call("Device::create_bind_group_layout", <<>>),
                         Call("Texture::create_view", <<compute_texture>>),
                         Call("Device::create_bind_group", <<compute_texture>>),
                         Call("Device::create_shader_module", <<>>),
                         Call("Device::create_pipeline_layout", <<>>),
                         Call("Device::create_compute_pipeline", <<>>),
                         Call("Device::create_sampler", <<>>),
                         Call("Device::create_bind_group_layout", <<>>),
                         Call("Texture::create_view", <<compute_texture>>),
                         Call("Device::create_bind_group", <<compute_texture>>),
                         Call("Device::create_shader_module", <<>>),
                         Call("Device::create_pipeline_layout", <<>>),
                         Call("Device::create_render_pipeline", <<>>) >>,
                    !.app = <<
                      [ window |-> window,
                        size |-> size,
                        webgpu_resources |->
                            [surface_config |-> [width |-> surface_size.width,
                                                 height |-> surface_size.height]],
                        compute_bind_group |->
                            compute_bind_group(compute_texture, resolution_uniform),
                        render_bind_group |-> render_bind_group(compute_texture),
                        resolution_uniform |-> resolution_uniform,
                        scene |-> [camera |-> [origin |-> Vec3_origin,
                                               direction |-> neg(Vec3_k)]] ] >>]
            : s3 \in {create_texture(
                        [s1 EXCEPT !.buffers = create_buffer_init(@, resolution_bytes(size)),
                                   !.log = Append(@, Call("Device::create_buffer_init",
                                                          <<size.width, size.height>>))],
                        size)},
              resolution_uniform \in {Len(s1.buffers) + 1},
              compute_texture \in {FreeHandle(s1.gpu.textures)} } : TRUE
        : s1 \in {WebGPUResources_new(
                    [st EXCEPT !.log = Append(@, Call("Window::inner_size", <<>>))],
                    surface_size, outcome)} } : TRUE

\* A faulty resize: the render bind group is not rebuilt and keeps its view of
\* the texture before.
App_resize_render_group_kept(st, new_size) ==
    CHOOSE r \in
      { IF s2.panicked THEN s2
        ELSE CHOOSE r2 \in
          { IF s3.panicked THEN s3
            ELSE Release(
                   [s3 EXCEPT
                      !.queue = write_buffer(@, s3.app[1].resolution_uniform, 0,
                                             resolution_bytes(s3.app[1].size)),
                      !.app[1].compute_bind_group =
                          compute_bind_group(compute_texture, s3.app[1].resolution_uniform),
                      !.log = @ \o
                        << Call("Queue::write_buffer", <<s3.app[1].resolution_uniform, 0>>),
                           Call("Texture::create_view", <<compute_texture>>),
                           Call("Device::create_bind_group", <<compute_texture>>) >>])
            : s3 \in {create_texture(s2, s2.app[1].size)},
              compute_texture \in {FreeHandle(s2.gpu.textures)} } : TRUE
        : s2 \in {resize_surface([st EXCEPT !.app[1].size = new_size], new_size)} } : TRUE

\* App::resize(new_size): the size is kept, the surface reconfigured, a new
\* texture made, the resolution written, and each bind group rebuilt over a
\* new view of the new texture.
App_resize(st, new_size) ==
    CHOOSE r \in
      { IF s2.panicked THEN s2
        ELSE CHOOSE r2 \in
          { IF s3.panicked THEN s3
            ELSE Release(
                   [s3 EXCEPT
                      !.queue = write_buffer(@, s3.app[1].resolution_uniform, 0,
                                             resolution_bytes(s3.app[1].size)),
                      !.app[1].compute_bind_group =
                          compute_bind_group(compute_texture, s3.app[1].resolution_uniform),
                      !.app[1].render_bind_group = render_bind_group(compute_texture),
                      !.log = @ \o
                        << Call("Queue::write_buffer", <<s3.app[1].resolution_uniform, 0>>),
                           Call("Texture::create_view", <<compute_texture>>),
                           Call("Device::create_bind_group", <<compute_texture>>),
                           Call("Texture::create_view", <<compute_texture>>),
                           Call("Device::create_bind_group", <<compute_texture>>) >>])
            : s3 \in {create_texture(s2, s2.app[1].size)},
              compute_texture \in {FreeHandle(s2.gpu.textures)} } : TRUE
        : s2 \in {resize_surface([st EXCEPT !.app[1].size = new_size], new_size)} } : TRUE

\* App::update
App_update(st) == st

\* The commands App::render encodes: the compute pass, then the render pass.
compute_pass(a) ==
    << Call("CommandEncoder::begin_compute_pass", <<>>),
       Call("ComputePass::set_pipeline", <<>>),
       Call("ComputePass::set_bind_group", <<0>>),
       Call("ComputePass::dispatch_workgroups", <<a.size.width, a.size.height, 1>>) >>

\* LoadOp::Clear(Color::BLACK) is r, g, b, a = 0, 0, 0, 1; draw(0..6, 0..1).
render_pass(a) ==
    << Call("CommandEncoder::begin_render_pass", <<0, 0, 0, 1>>),
       Call("RenderPass::set_pipeline", <<>>),
       Call("RenderPass::set_bind_group", <<0>>),
       Call("RenderPass::draw", <<0, 6, 0, 1>>) >>

\* A faulty render: the render pass is encoded before the compute pass.
App_render_draw_first(st, acquired) ==
    LET a == st.app[1]
        encoder == render_pass(a) \o compute_pass(a)
        written == ApplyWrites(st.buffers, st.queue)
    IN  IF acquired # "Ok"
        THEN [st EXCEPT !.log = Append(@, Call("Surface::get_current_texture", <<>>)),
                        !.result = acquired]
        ELSE [st EXCEPT
                !.log = @ \o << Call("Surface::get_current_texture", <<>>),
                                Call("Texture::create_view", <<>>),
                                Call("Device::create_command_encoder", <<>>) >>
                          \o encoder
                          \o << Call("CommandEncoder::finish", <<>>),
                                Call("Queue::submit", <<1>>),
                                Call("SurfaceTexture::present", <<>>) >>,
                !.buffers = written,
                !.queue = <<>>,
                !.frame = << [ submitted |-> <<encoder>>,
                               compute_bind_group |-> a.compute_bind_group,
                               render_bind_group |-> a.render_bind_group,
                               target |-> st.gpu.textures[a.compute_bind_group.entries[1].resource.of],
                               resolution |-> written[a.compute_bind_group.entries[2].resource.of],
                               surface |-> st.gpu.surface[1] ] >>,
                !.result = "Ok"]

\* A faulty render: the passes are encoded and submitted before the surface
\* texture is acquired, so a failure to acquire comes after the submission.
App_render_acquire_last(st, acquired) ==
    LET a == st.app[1]
        encoder == compute_pass(a) \o render_pass(a)
        written == ApplyWrites(st.buffers, st.queue)
        submitted ==
            [st EXCEPT
                !.log = @ \o << Call("Device::create_command_encoder", <<>>) >>
                          \o encoder
                          \o << Call("CommandEncoder::finish", <<>>),
                                Call("Queue::submit", <<1>>),
                                Call("Surface::get_current_texture", <<>>) >>,
                !.buffers = written,
                !.queue = <<>>,
                !.result = acquired]
    IN  IF acquired # "Ok"
        THEN submitted
        ELSE [submitted EXCEPT
                !.log = @ \o << Call("Texture::create_view", <<>>),
                                Call("SurfaceTexture::present", <<>>) >>,
                !.frame = << [ submitted |-> <<encoder>>,
                               compute_bind_group |-> a.compute_bind_group,
                               render_bind_group |-> a.render_bind_group,
                               target |-> st.gpu.textures[a.compute_bind_group.entries[1].resource.of],
                               resolution |-> written[a.compute_bind_group.entries[2].resource.of],
                               surface |-> st.gpu.surface[1] ] >>]

\* App::render, where acquired is what Surface::get_current_texture gives:
\* "Ok" or a SurfaceError.  Queue::submit applies the staged writes before
\* the command buffers run.
App_render(st, acquired) ==
    LET a == st.app[1]
        encoder == compute_pass(a) \o render_pass(a)
        written == ApplyWrites(st.buffers, st.queue)
    IN  IF acquired # "Ok"
        THEN [st EXCEPT !.log = Append(@, Call("Surface::get_current_texture", <<>>)),
                        !.result = acquired]
        ELSE [st EXCEPT
                !.log = @ \o << Call("Surface::get_current_texture", <<>>),
                                Call("Texture::create_view", <<>>),
                                Call("Device::create_command_encoder", <<>>) >>
                          \o encoder
                          \o << Call("CommandEncoder::finish", <<>>),
                                Call("Queue::submit", <<1>>),
                                Call("SurfaceTexture::present", <<>>) >>,
                !.buffers = written,
                !.queue = <<>>,
                !.frame = << [ submitted |-> <<encoder>>,
                               compute_bind_group |-> a.compute_bind_group,
                               render_bind_group |-> a.render_bind_group,
                               target |-> st.gpu.textures[a.compute_bind_group.entries[1].resource.of],
                               resolution |-> written[a.compute_bind_group.entries[2].resource.of],
                               surface |-> st.gpu.surface[1] ] >>,
                !.result = "Ok"]

\* ActiveEventLoop::exit
exit(st) ==
    [st EXCEPT !.loop.state = "exiting", !.log = Append(@, Call("ActiveEventLoop::exit", <<>>))]

\* Window::request_redraw
request_redraw(st) ==
    [st EXCEPT !.loop.redraw_requested = TRUE,
               !.log = Append(@, Call("Window::request_redraw", <<>>))]

\* eprintln!("{:?}", e)
eprintln(st) == [st EXCEPT !.log = Append(@, Call("eprintln", <<>>))]

\* A faulty match: Lost is printed like any other error.
on_render_result_lost_printed(st) ==
    CHOOSE r \in
      { IF s.result = "Ok" THEN s
        ELSE IF s.result = "OutOfMemory" THEN exit(s)
        ELSE eprintln(s)
        : s \in {st} } : TRUE

\* The match on the result of render in App::window_event.
on_render_result(st) ==
    CHOOSE r \in
      { IF s.result = "Ok" THEN s
        ELSE IF s.result = "Lost" THEN App_resize(s, s.app[1].size)
        ELSE IF s.result = "OutOfMemory" THEN exit(s)
        ELSE eprintln(s)
        : s \in {st} } : TRUE

\* A faulty handler: another redraw is requested only after a render that
\* succeeded.
App_window_event_redraw_on_ok_only(st, event, acquired) ==
    IF event.kind = "RedrawRequested"
    THEN CHOOSE r \in
           { IF matched.panicked \/ matched.result # "Ok" THEN matched
             ELSE request_redraw(matched)
             : matched \in {on_render_result(App_render(App_update(st), acquired))} } : TRUE
    ELSE IF event.kind = "Resized"
    THEN App_resize(st, event.size)
    ELSE st

\* App::window_event(event_loop, event)
App_window_event(st, event, acquired) ==
    IF event.kind = "RedrawRequested"
    THEN CHOOSE r \in
           { IF matched.panicked THEN matched ELSE request_redraw(matched)
             : matched \in {on_render_result(App_render(App_update(st), acquired))} } : TRUE
    ELSE IF event.kind = "Resized"
    THEN App_resize(st, event.size)
    ELSE st

\* Dropping the App releases its device, with its textures, buffers and queue.
drop_app(st) ==
    [st EXCEPT !.app = <<>>, !.gpu = NoGpu, !.buffers = <<>>, !.queue = <<>>]

\* AppHolder::resumed: the window made has id window; the new App replaces
\* the one the holder had, which is dropped with its window and its device.
AppHolder_resumed(st, window, size, surface_size, outcome) ==
    LET s1 == [st EXCEPT !.log = Append(@, Call("ActiveEventLoop::create_window", <<window>>))]
    IN  IF outcome = "create_window"
        THEN [s1 EXCEPT !.panicked = TRUE]
        ELSE App_new(request_redraw(s1), window, size, surface_size, outcome)

\* A faulty holder: the window id of the event is not compared.
AppHolder_window_event_any_window(st, window_id, event, acquired) ==
    IF st.app = <<>> THEN st
    ELSE IF event.kind = "CloseRequested" THEN exit(drop_app(st))
    ELSE App_window_event(st, event, acquired)

\* AppHolder::window_event(event_loop, window_id, event)
AppHolder_window_event(st, window_id, event, acquired) ==
    IF st.app = <<>> THEN st
    ELSE IF window_id # st.app[1].window THEN st
    ELSE IF event.kind = "CloseRequested" THEN exit(drop_app(st))
    ELSE App_window_event(st, event, acquired)

\* util::build_texture(device, size): a storage texture of that size.
build_texture(st, size) == create_texture(st, size)

\* util::build_debug_texture(device, queue): debug.png is opened and decoded
\* (decoded says whether that succeeds; the unwraps panic when it does not)
\* and a texture of the image's size is made with its pixels, with usage
\* TEXTURE_BINDING only.
build_debug_texture(st, size, decoded) ==
    IF ~decoded
    THEN [st EXCEPT !.log = Append(@, Call("image::io::Reader::open", <<>>)),
                    !.panicked = TRUE]
    ELSE [st EXCEPT !.log = @ \o << Call("image::io::Reader::open", <<>>),
                                    Call("Device::create_texture_with_data",
                                         <<size.width, size.height, 1>>) >>,
                    !.gpu.textures = @ @@ (FreeHandle(st.gpu.textures) :> size),
                    !.gpu.sampled_only = @ \cup {FreeHandle(st.gpu.textures)}]

\* util::texture_bind_groups(device, texture, layouts, sampler,
\* debug_texture): debug_texture is <<>> for None, <<t>> for Some(t).
texture_bind_groups(texture, debug_texture) ==
    LET compute_view == [kind |-> "TextureView", of |-> texture]
        render_view == IF debug_texture # <<>>
                       THEN <<[kind |-> "TextureView", of |-> debug_texture[1]]>>
                       ELSE <<>>
    IN  << [ layout |-> "layouts[0]",
             entries |-> << [binding |-> 0, resource |-> compute_view] >> ],
           [ layout |-> "layouts[1]",
             entries |-> << [binding |-> 0,
                             resource |-> IF render_view # <<>> THEN render_view[1]
                                          ELSE compute_view],
                            [binding |-> 1, resource |-> [kind |-> "Sampler", of |-> 1]] >> ] >>

(***************************************************************************)
(* The application: the event loop calls resumed, then delivers window     *)
(* events to AppHolder::window_event until the loop exits.                 *)
(***************************************************************************)

\* The window ids events carry; the first window made has id AppWindow.
AppWindow == 1
WindowIds == {1, 2}

\* The sizes a window reports, in an event or when its inner size is read; a
\* minimised window reports a zero size.
WindowSizes == {PhysicalSize(w, h) : w \in 0..MaxAppWidth, h \in 0..MaxAppHeight}

\* The sizes App::new can have read before WebGPUResources::new reads
\* surface_size: any size.  When surface_size has a zero width or height
\* Surface::configure panics before App::new uses the size it read, so that
\* one first read stands for them all.
ReadFirst(surface_size) ==
    IF surface_size.width > 0 /\ surface_size.height > 0
    THEN WindowSizes
    ELSE {PhysicalSize(1, 1)}

Event(kind, size) == [kind |-> kind, size |-> size]

\* The handler's bundle at the start of a handler.
Cur == [app |-> app, gpu |-> gpu, buffers |-> buffers, queue |-> queue, loop |-> loop,
        log |-> <<>>, frame |-> <<>>, result |-> "none", panicked |-> FALSE]

\* A panic unwinds through run_app and main: the holder and its App are
\* dropped and the process ends.
Unwound(st) == [drop_app(st) EXCEPT !.loop.state = "panicked"]

\* The state a handler leaves.
Commit(r) ==
    \E end \in {IF r.panicked THEN Unwound(r) ELSE r} :
        /\ app' = end.app
        /\ gpu' = end.gpu
        /\ buffers' = end.buffers
        /\ queue' = end.queue
        /\ loop' = end.loop
        /\ log' = end.log
        /\ frame' = end.frame
        /\ UNCHANGED <<camera, bind_group, image_size, vec, view, nan_sign>>

Delivering == loop.state \in {"init", "running", "exiting"}

Handled(window_id) == app # <<>> /\ window_id = app[1].window

\* The id of the window create_window makes: the lowest no live window has
\* (the window of the App the holder has lives until the new App replaces it).
NewWindow ==
    CHOOSE w \in WindowIds :
        /\ ~Handled(w)
        /\ \A v \in WindowIds : ~Handled(v) => w <= v

\* main: an AppHolder with no App, and the event loop about to run.
Init ==
    /\ AppIdle
    /\ camera = <<>>
    /\ bind_group = NoBindGroup
    /\ image_size = PhysicalSize(1, 1)
    /\ buffers = <<>>
    /\ queue = <<>>
    /\ VecIdle
    /\ VpIdle

\* The event loop calls resumed when the application starts and each time it
\* is resumed after that, until exit is requested.  The window's inner size
\* is size when App::new reads it and surface_size when WebGPUResources::new
\* does (any two sizes: nothing holds the window still between the reads, nor
\* before the first); outcome is "Ok" or what the setup fails on (the sizes have no part in
\* a setup that fails).
Resumed(size, surface_size, outcome) ==
    /\ loop.state \in {"init", "running"}
    /\ \E r \in {AppHolder_resumed([Cur EXCEPT !.loop.state = "running"], NewWindow,
                                   size, surface_size, outcome)} :
          /\ Commit(r)
          /\ UNCHANGED util
    /\ last' = [NoEvent EXCEPT !.kind = "Resumed", !.window_id = NewWindow, !.handled = TRUE]

RedrawRequested(window_id, acquired) ==
    /\ Delivering
    /\ (Handled(window_id) /\ acquired = "Lost") => Len(queue) < MaxStaged
    /\ \E r \in {AppHolder_window_event(
                    IF Handled(window_id) THEN [Cur EXCEPT !.loop.redraw_requested = FALSE]
                    ELSE Cur,
                    window_id, Event("RedrawRequested", PhysicalSize(0, 0)), acquired)} :
          /\ Commit(r)
          /\ UNCHANGED util
          /\ last' = [NoEvent EXCEPT !.kind = "RedrawRequested", !.window_id = window_id,
                                     !.render = r.result, !.handled = Handled(window_id)]

Resized(window_id, new_size) ==
    /\ Delivering
    /\ Handled(window_id) => Len(queue) < MaxStaged
    /\ \E r \in {AppHolder_window_event(Cur, window_id, Event("Resized", new_size), "Ok")} :
          /\ Commit(r)
          /\ UNCHANGED util
          /\ last' = [NoEvent EXCEPT !.kind = "Resized", !.window_id = window_id,
                                     !.handled = Handled(window_id)]

CloseRequested(window_id) ==
    /\ Delivering
    /\ \E r \in {AppHolder_window_event(Cur, window_id,
                                        Event("CloseRequested", PhysicalSize(0, 0)), "Ok")} :
          /\ Commit(r)
          /\ UNCHANGED util
          /\ last' = [NoEvent EXCEPT !.kind = "CloseRequested", !.window_id = window_id,
                                     !.handled = Handled(window_id)]

\* Any other window event (a key, the cursor, focus).
OtherEvent(window_id) ==
    /\ Delivering
    /\ \E r \in {AppHolder_window_event(Cur, window_id, Event("Other", PhysicalSize(0, 0)), "Ok")} :
          /\ Commit(r)
          /\ UNCHANGED util
          /\ last' = [NoEvent EXCEPT !.kind = "Other", !.window_id = window_id,
                                     !.handled = Handled(window_id)]

\* run_app returns once exit has been requested, and main returns: the
\* AppHolder goes out of scope and the App it still has is dropped.
LoopExit ==
    /\ loop.state = "exiting"
    /\ \E end \in {drop_app([Cur EXCEPT !.loop.state = "exited"])} :
          /\ app' = end.app
          /\ gpu' = end.gpu
          /\ buffers' = end.buffers
          /\ queue' = end.queue
          /\ loop' = end.loop
    /\ UNCHANGED <<last, log, frame, util, camera, bind_group, image_size, vecVars, viewVars>>

\* What an event for window_id is delivered with: any of the values S when
\* the holder handles it, and a single one when the holder ignores it, since
\* what an ignored event carries is never read.
Carried(window_id, S) == IF Handled(window_id) THEN S ELSE {CHOOSE x \in S : TRUE}

\* The steps of the application itself: what the event loop calls.
AppNext ==
    \/ \E surface_size \in WindowSizes : \E size \in ReadFirst(surface_size) :
          Resumed(size, surface_size, "Ok")
    \/ \E outcome \in SetupFailure :
          Resumed(PhysicalSize(1, 1), PhysicalSize(1, 1), outcome)
    \/ \E window_id \in WindowIds :
          \E acquired \in Carried(window_id, {"Ok"} \cup SurfaceError) :
              RedrawRequested(window_id, acquired)
    \/ \E window_id \in WindowIds :
          \E new_size \in Carried(window_id, WindowSizes) : Resized(window_id, new_size)
    \/ \E window_id \in WindowIds : CloseRequested(window_id)
    \/ \E window_id \in WindowIds : OtherEvent(window_id)
    \/ LoopExit

(***************************************************************************)
(* The texture harness: main.rs does not call util's texture functions, so *)
(* they are exercised on a device of their own, with no event loop: any    *)
(* sequence of build_texture, build_debug_texture and texture_bind_groups  *)
(* calls on the textures built so far.                                     *)
(***************************************************************************)

\* The most textures the harness builds, and the largest width it passes.
MaxTextures == 2
MaxUtilWidth == 2

Handles == 1..MaxTextures

\* The sizes given to build_texture (a zero width included) and the sizes
\* debug.png can have.
UtilSizes == {PhysicalSize(w, 1) : w \in 0..MaxUtilWidth}
ImageSizes == {s \in UtilSizes : s.width > 0}

\* A device with no textures and no event loop.
UtilInit ==
    /\ app = <<>>
    /\ gpu = NoGpu
    /\ loop = [state |-> "none", redraw_requested |-> FALSE]
    /\ last = NoEvent
    /\ log = <<>>
    /\ frame = <<>>
    /\ util = <<>>
    /\ camera = <<>>
    /\ bind_group = NoBindGroup
    /\ image_size = PhysicalSize(1, 1)
    /\ buffers = <<>>
    /\ queue = <<>>
    /\ VecIdle
    /\ VpIdle

BuildTexture(size) ==
    /\ loop.state = "none"
    /\ Cardinality(DOMAIN gpu.textures) < MaxTextures
    /\ \E r \in {build_texture(Cur, size)} : Commit(r)
    /\ UNCHANGED <<last, util>>

BuildDebugTexture(size, decoded) ==
    /\ loop.state = "none"
    /\ Cardinality(DOMAIN gpu.textures) < MaxTextures
    /\ \E r \in {build_debug_texture(Cur, size, decoded)} : Commit(r)
    /\ UNCHANGED <<last, util>>

\* A call of util::texture_bind_groups on a live texture, without or with a
\* debug texture (any live texture, the same one included).  The first
\* layout binds a storage texture: a texture without STORAGE_BINDING usage
\* is a validation error of Device::create_bind_group, a panic.
TextureBindGroups(texture, debug_texture) ==
    /\ loop.state = "none"
    /\ texture \in DOMAIN gpu.textures
    /\ debug_texture # <<>> => debug_texture[1] \in DOMAIN gpu.textures
    /\ \E views \in {<<Call("Texture::create_view", <<texture>>)>>
                       \o (IF debug_texture # <<>>
                           THEN <<Call("Texture::create_view", <<debug_texture[1]>>)>>
                           ELSE <<>>)} :
          IF texture \in gpu.sampled_only
          THEN /\ Commit([Cur EXCEPT !.log = Append(views, Call("Device::create_bind_group",
                                                                  <<texture>>)),
                                     !.panicked = TRUE])
               /\ UNCHANGED util
          ELSE /\ Commit([Cur EXCEPT !.log = views \o
                             << Call("Device::create_bind_group", <<texture>>),
                                Call("Device::create_bind_group",
                                     <<IF debug_texture # <<>> THEN debug_texture[1]
                                       ELSE texture>>) >>])
               /\ util' = << [ texture |-> texture,
                               debug_texture |-> debug_texture,
                               bind_groups |-> texture_bind_groups(texture, debug_texture) ] >>
    /\ UNCHANGED last

UtilNext ==
    \/ \E size \in UtilSizes : BuildTexture(size)
    \/ \E size \in ImageSizes, decoded \in BOOLEAN : BuildDebugTexture(size, decoded)
    \/ \E texture \in Handles, debug_texture \in {<<>>} \cup {<<t>> : t \in Handles} :
          TextureBindGroups(texture, debug_texture)

Next ==
    \/ AppNext
    \/ UtilNext

\* Either the application runs, or the texture harness does.
Spec == (Init \/ UtilInit) /\ [][Next]_vars

\* The redraw the window was asked for is delivered: winit sends
\* RedrawRequested to a window after Window::request_redraw.
RedrawDue ==
    /\ loop.redraw_requested
    /\ \E window_id \in WindowIds, acquired \in {"Ok"} \cup SurfaceError :
          /\ Handled(window_id)
          /\ last' = [NoEvent EXCEPT !.kind = "RedrawRequested", !.window_id = window_id,
                                     !.render = acquired, !.handled = TRUE]
          /\ RedrawRequested(window_id, acquired)

\* The application alone, with every requested redraw eventually delivered.
SpecLive == Init /\ [][AppNext]_vars /\ WF_vars(RedrawDue)

(***************************************************************************)
(* Claims about the camera (checked under SpecCamera)                      *)
(***************************************************************************)

\* What the GPU buffers hold once the staged writes are applied.
Applied == ApplyWrites(buffers, queue)

\* C1: after Camera::new and after every resize_viewport, pixel_00_center is
\* origin - (0,0,focal_len) - u/2 - v/2 + (du + dv)/2 of the camera's current
\* origin and viewport.
C1_PixelCenterFromCurrentFields ==
    camera.pixel_00_center =
        add(sub(sub(sub(camera.origin,
                        Vec3(F32OfInt(0), F32OfInt(0), camera.viewport.focal_len)),
                    div(camera.viewport.u, F32OfInt(2))),
                div(camera.viewport.v, F32OfInt(2))),
            div(add(camera.viewport.du, camera.viewport.dv), F32OfInt(2)))

\* Two resize_viewport calls are staged, the last one to 5 x 3 pixels, and
\* the pixel centre is no longer the one pixel_buffer holds.
C1_Witness ==
    /\ Len(queue) = 6
    /\ image_size = PhysicalSize(5, 3)
    /\ buffers[camera.pixel_buffer] # cast_slice(as_array(camera.pixel_00_center))
    /\ C1_PixelCenterFromCurrentFields

\* C3: once the staged writes are applied, viewport_buffers[0], [1],
\* pixel_buffer and origin_buffer hold viewport.du, viewport.dv,
\* pixel_00_center and origin; no buffer keeps a value of an earlier size.
C3_BuffersMatchCamera ==
    /\ Applied[camera.viewport_buffers[1]] = cast_slice(as_array(camera.viewport.du))
    /\ Applied[camera.viewport_buffers[2]] = cast_slice(as_array(camera.viewport.dv))
    /\ Applied[camera.pixel_buffer] = cast_slice(as_array(camera.pixel_00_center))
    /\ Applied[camera.origin_buffer] = cast_slice(as_array(camera.origin))
    /\ queue = <<>> =>
         /\ buffers[camera.viewport_buffers[1]] = cast_slice(as_array(camera.viewport.du))
         /\ buffers[camera.viewport_buffers[2]] = cast_slice(as_array(camera.viewport.dv))
         /\ buffers[camera.pixel_buffer] = cast_slice(as_array(camera.pixel_00_center))
         /\ buffers[camera.origin_buffer] = cast_slice(as_array(camera.origin))

\* Two resizes to different sizes are staged, and every one of the three
\* resized buffers still holds the bytes of the size before them.
C3_Witness ==
    /\ Len(queue) = 6
    /\ queue[1].data # queue[4].data
    /\ queue[2].data # queue[5].data
    /\ queue[3].data # queue[6].data
    /\ buffers[camera.viewport_buffers[1]] # cast_slice(as_array(camera.viewport.du))
    /\ buffers[camera.viewport_buffers[2]] # cast_slice(as_array(camera.viewport.dv))
    /\ buffers[camera.pixel_buffer] # cast_slice(as_array(camera.pixel_00_center))
    /\ C3_BuffersMatchCamera

\* The fields Viewport::new and Viewport::resize establish for image_size.
ViewportFields ==
    LET vp == camera.viewport
        pw == F32OfNat(image_size.width)
        ph == F32OfNat(image_size.height)
    IN  /\ vp.height = F32OfInt(2)
        /\ vp.width = F32Mul(<<"Viewport::new", "width", 0>>, vp.height,
                             F32Div(<<"Viewport::new", "ratio", 0>>, pw, ph))
        /\ vp.u = Vec3(vp.width, F32OfInt(0), F32OfInt(0))
        /\ vp.v = Vec3(F32OfInt(0), F32Neg(vp.height), F32OfInt(0))
        /\ vp.du = div(vp.u, pw)
        /\ vp.dv = div(vp.v, ph)

\* px_width steps of du and px_height steps of dv.
SpanU == mul(camera.viewport.du, F32OfNat(image_size.width))
SpanV == mul(camera.viewport.dv, F32OfNat(image_size.height))

\* a and b are the same f32 or neighbours: no f32 lies between them.
F32Adjacent(a, b) ==
    \/ a = b
    \/ /\ a.k = "fin" /\ b.k = "fin" /\ a.s = b.s /\ a.m # 0 /\ b.m # 0
       /\ \/ a.e = b.e /\ (a.m = b.m + 1 \/ b.m = a.m + 1)
          \/ a.e = b.e + 1 /\ a.m = Pow2(MantBits - 1) /\ b.m = Pow2(MantBits) - 1
          \/ b.e = a.e + 1 /\ b.m = Pow2(MantBits - 1) /\ a.m = Pow2(MantBits) - 1

\* C8 as stated: the fields hold and the steps span u and v exactly.
C8_SpansExactly ==
    /\ ViewportFields
    /\ SpanU = camera.viewport.u
    /\ SpanV = camera.viewport.v

\* C8 as amended: the fields hold with every quotient an f32 quotient, and
\* the steps span u and v exactly or to the neighbouring f32 (one rounding
\* step), component by component.
C8_SpansWithinOneRounding ==
    /\ ViewportFields
    /\ \A i \in 1..3 :
         /\ F32Adjacent(SpanU[i], camera.viewport.u[i])
         /\ F32Adjacent(SpanV[i], camera.viewport.v[i])

\* A resize to 5 x 3 pixels is staged, and five steps of du miss u.
C8_Witness ==
    /\ queue # <<>>
    /\ image_size = PhysicalSize(5, 3)
    /\ SpanU # camera.viewport.u
    /\ C8_SpansWithinOneRounding

\* C10: the camera bind group matches its layout.  The layout declares
\* exactly bindings 0..3, each a compute-visible uniform buffer, and the bind
\* group binds 0 -> origin buffer, 1 -> du buffer, 2 -> dv buffer, 3 -> pixel
\* (0,0) centre buffer: each binding once, each to the buffer that holds
\* that value.
C10_BindGroupMatchesLayout ==
    bind_group # NoBindGroup =>
        /\ Len(bind_group.layout) = 4
        /\ \A i \in 1..4 :
             /\ bind_group.layout[i].binding = i - 1
             /\ bind_group.layout[i].visibility = "COMPUTE"
             /\ bind_group.layout[i].ty = "Buffer"
             /\ bind_group.layout[i].buffer_ty = "Uniform"
        /\ Len(bind_group.entries) = 4
        /\ \A b \in 0..3 :
             Cardinality({i \in 1..4 : bind_group.entries[i].binding = b}) = 1
        /\ \A i \in 1..4 :
             LET e == bind_group.entries[i]
             IN  /\ e.binding = 0 =>
                      /\ e.resource = camera.origin_buffer
                      /\ Applied[e.resource] = cast_slice(as_array(camera.origin))
                 /\ e.binding = 1 =>
                      /\ e.resource = camera.viewport_buffers[1]
                      /\ Applied[e.resource] = cast_slice(as_array(camera.viewport.du))
                 /\ e.binding = 2 =>
                      /\ e.resource = camera.viewport_buffers[2]
                      /\ Applied[e.resource] = cast_slice(as_array(camera.viewport.dv))
                 /\ e.binding = 3 =>
                      /\ e.resource = camera.pixel_buffer
                      /\ Applied[e.resource] = cast_slice(as_array(camera.pixel_00_center))
        /\ Cardinality({bind_group.entries[i].resource : i \in 1..4}) = 4

\* A bind group was made for a camera resized to a non-square size, whose du
\* and dv differ.
C10_Witness ==
    /\ bind_group # NoBindGroup
    /\ queue = <<>>
    /\ image_size = PhysicalSize(5, 3)
    /\ buffers[camera.viewport_buffers[1]] # buffers[camera.viewport_buffers[2]]
    /\ C10_BindGroupMatchesLayout

(***************************************************************************)
(* Claims about Vec3 (checked under SpecVec)                               *)
(***************************************************************************)

\* C9: add, sub, neg, scalar mul and scalar div are component-wise
\* (component i of the result is the scalar operation on component i of the
\* operands), and a - b = a + (-b), a + origin() = a, (a * s) / s = a for a
\* non-zero s, over the bounded domain on which the arithmetic is exact.
C9_ComponentWise ==
    /\ vec.op = "add" => \A i \in 1..3 : vec.r[i] = F32Add(<<"Vec3", "add", i>>, vec.a[i], vec.b[i])
    /\ vec.op = "sub" =>
         /\ \A i \in 1..3 : vec.r[i] = F32Sub(<<"Vec3", "sub", i>>, vec.a[i], vec.b[i])
         /\ vec.r = add(vec.a, neg(vec.b))
    /\ vec.op = "neg" => \A i \in 1..3 : vec.r[i] = F32Neg(vec.a[i])
    /\ vec.op = "mul" => \A i \in 1..3 : vec.r[i] = F32Mul(<<"Vec3", "mul", i>>, vec.a[i], vec.s)
    /\ vec.op = "div" => \A i \in 1..3 : vec.r[i] = F32Div(<<"Vec3", "div", i>>, vec.a[i], vec.s)
    /\ vec.op = "add_origin" => vec.r = vec.a
    /\ vec.op = "mul_div" => vec.r = vec.a

\* A subtraction whose operands differ in every component and whose result
\* differs from both.
C9_Witness ==
    /\ vec.op = "sub"
    /\ vec.a[1] # vec.a[2] /\ vec.a[2] # vec.a[3] /\ vec.a[1] # vec.a[3]
    /\ vec.b = Vec3_j
    /\ vec.r # vec.a
    /\ C9_ComponentWise

(***************************************************************************)
(* Claims about the application (checked under Spec)                       *)
(***************************************************************************)

\* The size a frame was dispatched for.
DispatchSize(f) ==
    LET cb == f.submitted[1]
        d == cb[Pos(cb, "ComputePass::dispatch_workgroups")].args
    IN  PhysicalSize(d[1], d[2])

\* C2: at every render the scene camera holds a viewport and a pixel centre
\* recomputed for the size the frame is dispatched with (the size of the last
\* Resized event).
C2_CameraMatchesDispatch ==
    (app # <<>> /\ frame # <<>>) =>
        LET cam == app[1].scene.camera
        IN  /\ "viewport" \in DOMAIN cam
            /\ "pixel_00_center" \in DOMAIN cam
            /\ cam.viewport = Viewport_resize(cam.viewport, DispatchSize(frame[1]))
            /\ cam.pixel_00_center = pixel_00_center_new(cam.origin, cam.viewport)

\* C4: every successful render submits exactly one command buffer, in which
\* the compute pass (set pipeline, set bind group 0 to the compute bind group,
\* dispatch) comes before the render pass (clear to black, set pipeline, set
\* bind group 0 to the render bind group, draw 6 vertices, 1 instance), and
\* the surface texture is presented only after the submission.
C4_ComputeThenRenderThenPresent ==
    (app # <<>> /\ frame # <<>>) =>
        LET f == frame[1]
            cb == f.submitted[1]
        IN  /\ last.kind = "RedrawRequested" /\ last.render = "Ok"
            /\ Len(f.submitted) = 1
            /\ Len(cb) = 8
            /\ 0 < Pos(cb, "CommandEncoder::begin_compute_pass")
            /\ Pos(cb, "CommandEncoder::begin_compute_pass") < Pos(cb, "ComputePass::set_pipeline")
            /\ Pos(cb, "ComputePass::set_pipeline") < Pos(cb, "ComputePass::set_bind_group")
            /\ Pos(cb, "ComputePass::set_bind_group") < Pos(cb, "ComputePass::dispatch_workgroups")
            /\ Pos(cb, "ComputePass::dispatch_workgroups") < Pos(cb, "CommandEncoder::begin_render_pass")
            /\ Pos(cb, "CommandEncoder::begin_render_pass") < Pos(cb, "RenderPass::set_pipeline")
            /\ Pos(cb, "RenderPass::set_pipeline") < Pos(cb, "RenderPass::set_bind_group")
            /\ Pos(cb, "RenderPass::set_bind_group") < Pos(cb, "RenderPass::draw")
            /\ cb[Pos(cb, "ComputePass::set_bind_group")].args = <<0>>
            /\ f.compute_bind_group = app[1].compute_bind_group
            /\ cb[Pos(cb, "CommandEncoder::begin_render_pass")].args = <<0, 0, 0, 1>>
            /\ cb[Pos(cb, "RenderPass::set_bind_group")].args = <<0>>
            /\ f.render_bind_group = app[1].render_bind_group
            /\ cb[Pos(cb, "RenderPass::draw")].args = <<0, 6, 0, 1>>
            /\ 0 < Pos(log, "CommandEncoder::finish")
            /\ Pos(log, "RenderPass::draw") < Pos(log, "CommandEncoder::finish")
            /\ Pos(log, "CommandEncoder::finish") < Pos(log, "Queue::submit")
            /\ log[Pos(log, "Queue::submit")].args = <<1>>
            /\ Pos(log, "Queue::submit") < Pos(log, "SurfaceTexture::present")

\* A frame was rendered for a 2 x 1 window.
C4_Witness ==
    /\ app # <<>>
    /\ frame # <<>>
    /\ last.render = "Ok"
    /\ DispatchSize(frame[1]) = PhysicalSize(2, 1)
    /\ Pos(log, "SurfaceTexture::present") > 0

\* The texture a bind group's binding 0 is a view of.
ViewedTexture(bg) == bg.entries[1].resource.of

\* The App's two bind groups view one texture, a live one.
AppGroupsShareTexture ==
    app # <<>> =>
        /\ ViewedTexture(app[1].render_bind_group) = ViewedTexture(app[1].compute_bind_group)
        /\ ViewedTexture(app[1].compute_bind_group) \in DOMAIN gpu.textures
        /\ app[1].compute_bind_group.entries[1].resource.kind = "TextureView"
        /\ app[1].render_bind_group.entries[1].resource.kind = "TextureView"

\* C5 as stated: after App::new and any App::resize the render bind group's
\* view is of the texture the compute bind group writes, and the two bind
\* groups util::texture_bind_groups returns always view one texture.
C5_SameTextureAlways ==
    /\ AppGroupsShareTexture
    /\ util # <<>> =>
          ViewedTexture(util[1].bind_groups[2]) = ViewedTexture(util[1].bind_groups[1])

\* C5, amended: after App::new and any App::resize the render bind group's
\* view is of the texture the compute bind group writes; the two bind groups
\* util::texture_bind_groups returns view one texture when debug_texture is
\* None, and with Some(t) the render bind group views t while the compute
\* bind group views the storage texture.
C5_SameTextureUnlessDebug ==
    /\ AppGroupsShareTexture
    /\ util # <<>> =>
          /\ ViewedTexture(util[1].bind_groups[1]) = util[1].texture
          /\ util[1].debug_texture = <<>> =>
                ViewedTexture(util[1].bind_groups[2]) = util[1].texture
          /\ util[1].debug_texture # <<>> =>
                ViewedTexture(util[1].bind_groups[2]) = util[1].debug_texture[1]

\* texture_bind_groups has been called on a storage texture with a debug
\* texture, another live texture of the device.
C5_Witness ==
    /\ util # <<>>
    /\ util[1].debug_texture # <<>>
    /\ util[1].debug_texture[1] # util[1].texture
    /\ util[1].debug_texture[1] \in gpu.sampled_only
    /\ util[1].texture \in DOMAIN gpu.textures
    /\ ViewedTexture(util[1].bind_groups[2]) # ViewedTexture(util[1].bind_groups[1])

\* C6: while the App exists, App.size, the surface configuration (the field
\* and what the surface was configured with), the storage texture's size and
\* the resolution uniform (its contents once the staged writes are applied)
\* are one size; a frame is dispatched over that size, which is the size of
\* the texture it writes and the resolution the shader reads.
C6_OneSizeEverywhere ==
    app # <<>> =>
        LET a == app[1]
            dims == [width |-> a.size.width, height |-> a.size.height]
            tex == ViewedTexture(a.compute_bind_group)
        IN  /\ a.webgpu_resources.surface_config = dims
            /\ gpu.surface = <<dims>>
            /\ tex \in DOMAIN gpu.textures
            /\ gpu.textures[tex] = a.size
            /\ ApplyWrites(buffers, queue)[a.resolution_uniform] = resolution_bytes(a.size)
            /\ frame # <<>> =>
                  /\ DispatchSize(frame[1]) = a.size
                  /\ frame[1].target = a.size
                  /\ frame[1].resolution = resolution_bytes(a.size)
                  /\ frame[1].surface = dims

\* What a handled RedrawRequested leaves, by the result of render.
AfterRender(acquired) ==
    /\ acquired = "Ok" =>
          /\ app' = app /\ gpu' = gpu /\ loop'.state = loop.state
          /\ Pos(log', "Surface::configure") = 0
          /\ Pos(log', "ActiveEventLoop::exit") = 0
    /\ acquired = "Lost" =>
          /\ app' # <<>>
          /\ app'[1].size = app[1].size
          /\ Pos(log', "Surface::get_current_texture") < Pos(log', "Surface::configure")
          /\ log'[Pos(log', "Surface::configure")].args = <<app[1].size.width, app[1].size.height>>
          /\ Pos(log', "Surface::configure") < Pos(log', "Device::create_texture")
          /\ ViewedTexture(app'[1].compute_bind_group) # ViewedTexture(app[1].compute_bind_group)
          /\ ViewedTexture(app'[1].render_bind_group) = ViewedTexture(app'[1].compute_bind_group)
          /\ gpu'.textures[ViewedTexture(app'[1].compute_bind_group)] = app[1].size
          /\ Len(queue') = Len(queue) + 1
          /\ frame' = <<>>
          /\ loop'.state = loop.state
          /\ Pos(log', "ActiveEventLoop::exit") = 0
    /\ acquired = "OutOfMemory" =>
          /\ Pos(log', "ActiveEventLoop::exit") > 0
          /\ loop'.state = "exiting"
          /\ app' = app /\ gpu' = gpu /\ buffers' = buffers /\ queue' = queue
          /\ frame' = <<>>
    /\ acquired \in {"Timeout", "Outdated"} =>
          /\ Pos(log', "eprintln") > 0
          /\ loop'.state = loop.state
          /\ app' = app /\ gpu' = gpu /\ buffers' = buffers /\ queue' = queue
          /\ frame' = <<>>
          /\ Pos(log', "Surface::configure") = 0
          /\ Pos(log', "ActiveEventLoop::exit") = 0

\* C7: in a handled RedrawRequested, a render that fails with Lost is
\* followed by resize(self.size) (the surface reconfigured with the same
\* size, a new texture, both bind groups rebuilt); OutOfMemory requests the
\* loop's exit and changes nothing else; any other error is printed and
\* leaves the application as it was, still running; a render that succeeds
\* reconfigures nothing and requests no exit.
C7_RenderErrorRecovery ==
    [][\A window_id \in WindowIds, acquired \in {"Ok"} \cup SurfaceError :
          (/\ Handled(window_id)
           /\ last'.kind = "RedrawRequested"
           /\ last'.render = acquired
           /\ RedrawRequested(window_id, acquired)) => AfterRender(acquired)]_vars

\* A render failed with Lost and the handler rebuilt the surface and texture.
C7_Witness ==
    /\ last.kind = "RedrawRequested" /\ last.handled
    /\ last.render = "Lost"
    /\ app # <<>>
    /\ Pos(log, "Surface::configure") > 0
    /\ Len(queue) = 1

(***************************************************************************)
(* Claims about the Viewport (checked under SpecViewport)                  *)
(***************************************************************************)

\* Vec3 has no ==; two Vec3 are equal when their components are, under f32 ==.
Vec3Eq(a, b) == \A i \in 1..3 : F32Eq(a[i], b[i])

\* C11: after any non-empty sequence of Viewport::resize calls ending with
\* size s, width, height, u, v, du and dv equal those of Viewport::new(s)
\* (under ==, the equality of f32), for every s, and focal_len is what it was
\* before the sequence; height and v are the ones every Viewport is made with,
\* and one more resize with s gives a viewport equal to the one before it.
C11_LastSizeDecides ==
    view.last # <<>> =>
        LET s == view.last[1]
            fresh == Viewport_new(s)
            again == Viewport_resize(view.v, s)
        IN  /\ F32Eq(view.v.width, fresh.width)
            /\ F32Eq(view.v.height, fresh.height)
            /\ Vec3Eq(view.v.u, fresh.u)
            /\ Vec3Eq(view.v.v, fresh.v)
            /\ Vec3Eq(view.v.du, fresh.du)
            /\ Vec3Eq(view.v.dv, fresh.dv)
            /\ F32Eq(view.v.focal_len, view.focal0)
            /\ view.v.height = F32OfInt(2)
            /\ view.v.v = Vec3(F32OfInt(0), F32OfInt(-2), F32OfInt(0))
            /\ F32Eq(again.width, view.v.width)
            /\ F32Eq(again.height, view.v.height)
            /\ Vec3Eq(again.u, view.v.u)
            /\ Vec3Eq(again.v, view.v.v)
            /\ Vec3Eq(again.du, view.v.du)
            /\ Vec3Eq(again.dv, view.v.dv)
            /\ F32Eq(again.focal_len, view.v.focal_len)

(***************************************************************************)
(* Further claims about the application (checked under Spec)               *)
(***************************************************************************)

\* C12: no handler of the application (resumed or a window event, whichever
\* was handled last) configures the surface or creates a texture with a zero
\* width or height: every Surface::configure and Device::create_texture call
\* is given a width and a height above zero.
C12_NoZeroSizeReachesDevice ==
    last.kind # "none" =>
        \A i \in 1..Len(log) :
            log[i].call \in {"Surface::configure", "Device::create_texture"} =>
                /\ log[i].args[1] > 0
                /\ log[i].args[2] > 0

\* A window event for window_id is delivered in this step.
Delivered(window_id) ==
    /\ last'.window_id = window_id
    /\ \/ last'.kind = "RedrawRequested" /\
              \E acquired \in {"Ok"} \cup SurfaceError : RedrawRequested(window_id, acquired)
       \/ last'.kind = "Resized" /\ \E new_size \in WindowSizes : Resized(window_id, new_size)
       \/ last'.kind = "CloseRequested" /\ CloseRequested(window_id)
       \/ last'.kind = "Other" /\ OtherEvent(window_id)

\* The step makes no call and changes nothing of the holder, the device, the
\* queue or the loop.
NothingTouched ==
    /\ app' = app
    /\ gpu' = gpu
    /\ buffers' = buffers
    /\ queue' = queue
    /\ loop' = loop
    /\ log' = <<>>
    /\ frame' = <<>>

\* C13: a window event delivered while the holder has no App (before resumed
\* or after CloseRequested) or for a window other than the App's makes no
\* call and changes no state; CloseRequested for the App's window drops the
\* App and requests the loop's exit; and once the App is dropped it is never
\* made again and no handler renders, resizes or makes any other call.
C13_HolderLifecycle ==
    [][/\ \A window_id \in WindowIds :
              (~Handled(window_id) /\ Delivered(window_id)) => NothingTouched
       /\ \A window_id \in WindowIds :
              (Handled(window_id) /\ last'.kind = "CloseRequested"
                                  /\ CloseRequested(window_id)) =>
              /\ app' = <<>>
              /\ loop'.state = "exiting"
              /\ Pos(log', "ActiveEventLoop::exit") > 0
              /\ frame' = <<>>
       /\ (app = <<>> /\ loop.state \in {"exiting", "exited"}) =>
              /\ app' = <<>>
              /\ log' = <<>> \/ log' = log
              /\ frame' = <<>>
              /\ gpu' = gpu /\ buffers' = buffers /\ queue' = queue
              /\ loop'.state \in {"exiting", "exited"}]_vars

\* After CloseRequested dropped the App, a Resized event for its window was
\* delivered and ignored.
C13_Witness ==
    /\ app = <<>>
    /\ loop.state = "exiting"
    /\ last.kind = "Resized"
    /\ last.window_id = AppWindow
    /\ ~last.handled
    /\ log = <<>>

\* A RedrawRequested for the App's window is handled in this step.
HandledRedraw ==
    /\ last'.kind = "RedrawRequested"
    /\ \E window_id \in WindowIds, acquired \in {"Ok"} \cup SurfaceError :
          /\ Handled(window_id)
          /\ last'.render = acquired
          /\ RedrawRequested(window_id, acquired)

\* A Resized for the App's window is handled in this step.
HandledResized ==
    /\ last'.kind = "Resized"
    /\ \E window_id \in WindowIds, new_size \in WindowSizes :
          /\ Handled(window_id)
          /\ app' # <<>> => app'[1].size = new_size
          /\ Resized(window_id, new_size)

\* The App exists and the loop has not returned.
Alive == app # <<>> /\ loop.state # "exited"

\* C14: every handled RedrawRequested ends with Window::request_redraw,
\* whatever render returned, and leaves a redraw requested; a handled Resized
\* never calls request_redraw; and, requested redraws being delivered, as
\* long as the App exists and the loop runs a RedrawRequested is handled (a
\* frame attempted) again and again.
C14_ContinuousRedraw ==
    /\ [][/\ HandledRedraw =>
                /\ Len(log') > 0
                /\ log'[Len(log')].call = "Window::request_redraw"
                /\ loop'.redraw_requested
          /\ HandledResized =>
                /\ Pos(log', "Window::request_redraw") = 0
                /\ loop'.redraw_requested = loop.redraw_requested]_vars
    /\ (<>[]Alive) => []<><<HandledRedraw>>_vars

\* A render failed with OutOfMemory and the handler still asked for a redraw.
C14_Witness ==
    /\ app # <<>>
    /\ last.kind = "RedrawRequested" /\ last.handled
    /\ last.render = "OutOfMemory"
    /\ loop.redraw_requested
    /\ log[Len(log)].call = "Window::request_redraw"

\* The calls that create an encoder, encode a pass, submit or present.
EncoderCalls ==
    { "Device::create_command_encoder",
      "CommandEncoder::begin_compute_pass", "ComputePass::set_pipeline",
      "ComputePass::set_bind_group", "ComputePass::dispatch_workgroups",
      "CommandEncoder::begin_render_pass", "RenderPass::set_pipeline",
      "RenderPass::set_bind_group", "RenderPass::draw",
      "CommandEncoder::finish", "Queue::submit", "SurfaceTexture::present" }

\* C15: when Surface::get_current_texture fails, App::render makes that one
\* call and returns the error with the App, the device's textures and
\* buffers and the staged writes as they were and no frame; the handler it
\* returns to begins with that call, makes no view of a surface texture,
\* creates no encoder, encodes no pass, submits nothing (the staged writes
\* stay staged) and presents nothing.
C15_FailedAcquireDoesNothing ==
    [][(HandledRedraw /\ last'.render \in SurfaceError) =>
          /\ \E r \in {App_render(Cur, last'.render)} :
                /\ r.result = last'.render
                /\ r.log = <<Call("Surface::get_current_texture", <<>>)>>
                /\ r.app = app
                /\ r.gpu = gpu
                /\ r.buffers = buffers
                /\ r.queue = queue
                /\ r.frame = <<>>
          /\ log'[1].call = "Surface::get_current_texture"
          /\ \A i \in 1..Len(log') :
                /\ log'[i].call \notin EncoderCalls
                /\ ~(log'[i].call = "Texture::create_view" /\ log'[i].args = <<>>)
          /\ frame' = <<>>
          /\ buffers' = buffers
          /\ Len(queue') >= Len(queue)]_vars

\* A render failed with Timeout while a resolution write was staged, and the
\* write is still staged.
C15_Witness ==
    /\ app # <<>>
    /\ last.kind = "RedrawRequested" /\ last.handled
    /\ last.render = "Timeout"
    /\ log[1].call = "Surface::get_current_texture"
    /\ frame = <<>>
    /\ Len(queue) = 1

=============================================================================
